---- MODULE Spec2Model ----
(***************************************************************************)
(* Chat session lifecycle and message relay of energy_back:                *)
(*   src/messages/router.py   session manager (user_id flow), relay,       *)
(*                            receive_message, expiry sweep                *)
(*   src/get_message/router.py, src/get_message/crud.py                    *)
(*                            session manager (session_id flow),           *)
(*                            create_message, lead creation                *)
(*   src/messages/models.py   the relational schema and its constraints    *)
(*   src/rabbit/consumer.py, src/rabbit/producer.py   the queue workers    *)
(*                                                                         *)
(* Every request handler is a coroutine: it yields at each `await` of a    *)
(* database or broker round trip.  One action of the model is the code     *)
(* between two such round trips, so requests of different workers          *)
(* interleave exactly where the coroutines can.                            *)
(*                                                                         *)
(* Time is counted in minutes.  datetime.utcnow() reads the variable now.  *)
(***************************************************************************)
EXTENDS Integers, Sequences, FiniteSets, TLC

(***************************************************************************)
(* Bounds of the model.                                                    *)
(***************************************************************************)
MaxTime == 61
MaxSessions == 3
MaxMessages == 2
MaxLeads == 2
MaxProduced == 1
MaxCalls == 3
MaxSeqCalls == 5
MaxRequests == 3
MaxUndecodable == 2

(***************************************************************************)
(* Program constants.                                                      *)
(***************************************************************************)
SESSION_LIFETIME == 2
SESSION_TIMEOUT == 60

Workers == {1, 2}
Users == {"u1"}
Senders == {"u1"}
Roles == {"LEAD", "BOT", "MANAGER"}
Texts == {<<"h", "i">>, <<" ">>, <<>>}
NULL == "<NULL>"
\* The instants at which the clock is read.  Their differences fall below,
\* on and above the two-minute lifetime (1, 2 and 3 minutes) and below, on
\* and above the one-hour timeout (58, 60 and 61 minutes).
ClockValues ==
    {t \in 0..MaxTime : \/ t <= 1
                          \/ t = SESSION_LIFETIME + 1
                          \/ t >= SESSION_TIMEOUT + 1}
RABBIT_QUEUE_NAME == "message_queue"
CONSUMER_QUEUE_NAME == "my_queue"
QueueNames == {RABBIT_QUEUE_NAME, CONSUMER_QUEUE_NAME}

\* A session_id no uuid4() call of the run ever generates.
UnknownSid == MaxSessions + 1

VARIABLES
    now,          \* the wall clock, datetime.utcnow()
    sessions,     \* table sessions: set of rows
    messages,     \* table messages: set of rows
    leads,        \* table leads: set of rows
    nextSid,      \* the next fresh session_id (uuid4)
    nextMsgId,    \* sequence of messages.id
    nextLeadId,   \* sequence of leads.id
    serving,      \* how requests are served: "concurrent" or "serial"
    calls,        \* number of calls started so far
    proc,         \* per worker: the coroutine's position and locals
    last,         \* the call that the latest step completed, if it completed one
    declared,     \* queues that exist on the broker
    queues,       \* queue name -> messages waiting in it
    publishLog,   \* every body send_to_rabbitmq handed to the broker, in order
    relayCalls,   \* the calls of send_to_rabbitmq: message id and role, in order
    produced,     \* number of producer.send_message calls so far
    consumerPc,   \* position of the consume() task
    delivered,    \* number of deliveries made to the consumer callback
    acked,        \* settlements: deliveries acknowledged, in order
    rejected,     \* settlements: deliveries rejected, in order
    raisedOut,    \* delivery tags of the callback runs that ended by raising
    users,        \* table users: set of rows
    request_session, \* request.session of the client: key -> value
    cookies,      \* the client's cookies besides the session cookie: names
    responses     \* the responses of the auth routes, in order

dbVars == <<sessions, messages, leads, nextSid, nextMsgId, nextLeadId>>
brokerVars == <<declared, queues, publishLog, relayCalls, produced>>
consumerVars == <<consumerPc, delivered, acked, rejected, raisedOut>>
authVars == <<users, request_session, cookies, responses>>
vars == <<serving, calls, now, dbVars, proc, last, brokerVars, consumerVars,
          authVars>>

(***************************************************************************)
(* Rows of the schema (src/messages/models.py).  Session.created_at is     *)
(* written once with the same utcnow() as last_active and never read by    *)
(* any query, so the row keeps last_active only.                           *)
(***************************************************************************)
Session(session_id, user_id, last_active) ==
    [session_id |-> session_id, user_id |-> user_id, last_active |-> last_active]

Message(id, text, sender, role, session_id, created_at) ==
    [id |-> id, text |-> text, sender |-> sender, role |-> role,
     session_id |-> session_id, created_at |-> created_at,
     is_sent_to_rabbitmq |-> FALSE, is_processed_by_bot |-> FALSE]

Lead(id, first_name, last_name, session_id) ==
    [id |-> id, first_name |-> first_name, last_name |-> last_name,
     session_id |-> session_id]

NoTables == [sessions |-> {}, messages |-> {}, leads |-> {}, now |-> 0]

\* The tables and the clock as a call finds them.
Tables == [sessions |-> sessions, messages |-> messages, leads |-> leads,
           now |-> now]

SessionIds == {s.session_id : s \in sessions}
MessageIds == {m.id : m \in messages}

\* A sessions table that allows one row per user_id.
SessionInsertUniqueUser(row) == /\ row.user_id # NULL
                                /\ \A s \in sessions : s.user_id # row.user_id

\* models.py:44  Session.user_id is NOT NULL (session_id is unique by
\* construction: every uuid4() is fresh).
SessionInsertAccepted(row) == row.user_id # NULL

\* models.py:19-20  Message.role is NOT NULL, Message.session_id is a
\* foreign key to sessions.session_id.
MessageInsertAccepted(row) == row.role # NULL /\ row.session_id \in SessionIds

\* models.py:67  Lead.session_id is a foreign key, not unique.
LeadInsertAccepted(row) == row.session_id \in SessionIds

(***************************************************************************)
(* A worker at rest, and what a worker holds while it serves a call: its   *)
(* position, the call's arguments and its locals.  pre is the tables as    *)
(* the call found them.  A step that ends a call leaves the call's result  *)
(* in last: outcome is "returned" or "raised", at the position the call    *)
(* ended at, status the HTTP status of a route handler (0 for a plain      *)
(* function), ret the session_id a session function returned, rows the     *)
(* message ids a listing returned and chats the entries of a chat list,    *)
(* both in the order of the response.                                      *)
(***************************************************************************)
Idle ==
    [pc |-> "idle", op |-> "none", user_id |-> "", session_id |-> 0,
     text |-> <<>>, sender |-> "", role |-> "", stamp |-> 0, target |-> 0,
     todo |-> {}, pre |-> NoTables, outcome |-> "none", at |-> "", status |-> 0,
     ret |-> 0, rows |-> <<>>, chats |-> <<>>]

\* A call of op as it starts.
Call(op) == [Idle EXCEPT !.op = op, !.stamp = now, !.pre = Tables]

AtRest(w) == proc[w].pc = "idle"

\* A worker takes a new call when it is at rest; when requests are served
\* one at a time, only when every worker is (the first of them takes it).
CanStart(w) ==
    /\ AtRest(w)
    /\ IF serving = "serial"
       THEN calls < MaxSeqCalls /\ \A v \in Workers : AtRest(v) /\ w <= v
       ELSE calls < MaxCalls

Running(op) == Cardinality({w \in Workers : proc[w].op = op})

Returned(job, status, ret) ==
    [job EXCEPT !.pc = "done", !.outcome = "returned", !.at = job.pc,
                !.status = status, !.ret = ret, !.todo = {}]

Raised(job, status) ==
    [job EXCEPT !.pc = "done", !.outcome = "raised", !.at = job.pc,
                !.status = status, !.ret = 0, !.todo = {}]

\* The worker moves on to job; a job that is done is the call's result.
Finish(w, job) ==
    /\ proc' = [proc EXCEPT ![w] = IF job.pc = "done" THEN Idle ELSE job]
    /\ last' = IF job.pc = "done" THEN job ELSE Idle

\* An empty mapping: a request.session without keys.
EmptySession == [k \in {} |-> ""]

StoreStart ==
    /\ now = 0
    /\ calls = 0
    /\ sessions = {}
    /\ messages = {}
    /\ leads = {}
    /\ nextSid = 1
    /\ nextMsgId = 1
    /\ nextLeadId = 1
    /\ proc = [w \in Workers |-> Idle]
    /\ last = Idle
    /\ declared = {}
    /\ queues = [q \in QueueNames |-> <<>>]
    /\ publishLog = <<>>
    /\ relayCalls = <<>>
    /\ produced = 0
    /\ consumerPc = "stopped"
    /\ delivered = 0
    /\ acked = <<>>
    /\ rejected = <<>>
    /\ raisedOut = <<>>

Start ==
    /\ StoreStart
    /\ users = {}
    /\ request_session = EmptySession
    /\ cookies = {}
    /\ responses = <<>>

Init == serving = "concurrent" /\ Start

SeqInit == serving = "serial" /\ Start

(***************************************************************************)
(* The clock.  When requests are served one at a time a call takes no      *)
(* time: the clock moves between calls.                                    *)
(***************************************************************************)
Tick ==
    /\ serving = "serial" => \A w \in Workers : AtRest(w)
    /\ \E t \in ClockValues :
          /\ t > now
          /\ now' = t
    /\ last' = Idle
    /\ calls' = calls
    /\ UNCHANGED <<authVars, serving, dbVars, proc, brokerVars, consumerVars>>

(***************************************************************************)
(* Session manager, user_id flow (src/messages/router.py).                 *)
(***************************************************************************)
\* router.py:47  datetime.utcnow() - existing_session.last_active > SESSION_LIFETIME
IsExpired(t, last_active) == t - last_active > SESSION_LIFETIME

\* router.py:41-59 up to the first write.  The query has no ORDER BY, so
\* .first() yields whichever matching row the database returns first.
get_or_create_session(w, user_id) ==
    /\ CanStart(w)
    /\ calls' = calls + 1
    /\ (nextSid - 1) + Running("get_or_create_session") < MaxSessions
    /\ LET job == [Call("get_or_create_session") EXCEPT !.user_id = user_id]
           matching == {s \in sessions : s.user_id = user_id}
       IN  \/ /\ matching = {}
              /\ Finish(w, [job EXCEPT !.pc = "create_new_session"])
           \/ \E existing_session \in matching :
                 IF IsExpired(now, existing_session.last_active)
                 THEN Finish(w, [job EXCEPT !.pc = "create_new_session"])
                 ELSE Finish(w, [job EXCEPT
                                    !.pc = "commit_last_active",
                                    !.target = existing_session.session_id])
    /\ UNCHANGED <<authVars, serving, now, dbVars, brokerVars, consumerVars>>

\* router.py:53-56  existing_session.last_active = utcnow(); commit.  The
\* UPDATE of a row that a sweep deleted meanwhile matches nothing and the
\* ORM raises.
get_or_create_session_commit(w) ==
    /\ calls' = calls
    /\ proc[w].pc = "commit_last_active"
    /\ LET job == proc[w]
       IN  IF job.target \in SessionIds
           THEN /\ sessions' = {IF s.session_id = job.target
                                THEN [s EXCEPT !.last_active = job.stamp]
                                ELSE s : s \in sessions}
                /\ Finish(w, Returned(job, 0, job.target))
           ELSE /\ sessions' = sessions
                /\ Finish(w, Raised(job, 0))
    /\ UNCHANGED <<authVars, serving, now, messages, leads, nextSid, nextMsgId, nextLeadId,
                   brokerVars, consumerVars>>

\* router.py:61-76
create_new_session(w) ==
    /\ calls' = calls
    /\ proc[w].pc = "create_new_session"
    /\ LET job == proc[w]
           new_session == Session(nextSid, job.user_id, job.stamp)
       IN  /\ SessionInsertAccepted(new_session)
           /\ sessions' = sessions \cup {new_session}
           /\ nextSid' = nextSid + 1
           /\ Finish(w, Returned(job, 0, nextSid))
    /\ UNCHANGED <<authVars, serving, now, messages, leads, nextMsgId, nextLeadId,
                   brokerVars, consumerVars>>

(***************************************************************************)
(* Session manager, session_id flow (src/get_message/router.py) and the    *)
(* data-access functions it shares with create_message                     *)
(* (src/get_message/crud.py).                                              *)
(***************************************************************************)
\* get_message/router.py:47  now - session.last_active < SESSION_TIMEOUT
IsActive(t, last_active) == t - last_active < SESSION_TIMEOUT

\* A look-up that finds only sessions within the TTL of the user_id flow.
get_unexpired_session(session_id) == {s \in sessions : s.session_id = session_id /\ ~IsExpired(now, s.last_active)}

\* A look-up that finds a session whatever the id.
get_any_session(session_id) == sessions

\* crud.py:141-159  scalar_one_or_none() over the unique session_id; the same
\* query at messages/router.py:194-196
get_session(session_id) == {s \in sessions : s.session_id = session_id}

\* The session ids a client can send: every id handed out so far and one
\* that was never handed out.
KnownSids == (1..(nextSid - 1)) \cup {UnknownSid}

\* get_message/router.py:31-58 up to the first write
get_message_get_or_create_session(w, session_id) ==
    /\ CanStart(w)
    /\ calls' = calls + 1
    /\ LET job == [Call("get_message_get_or_create_session")
                       EXCEPT !.session_id = session_id]
           session == get_session(session_id)
       IN  IF \E s \in session : IsActive(now, s.last_active)
           THEN Finish(w, [job EXCEPT !.pc = "update_last_active",
                                      !.target = session_id])
           ELSE Finish(w, [job EXCEPT !.pc = "create_session"])
    /\ UNCHANGED <<authVars, serving, now, dbVars, brokerVars, consumerVars>>

\* crud.py:163-179  UPDATE sessions SET last_active = utcnow() WHERE
\* session_id = :id; commit.  An UPDATE that matches no row is not an error.
\* Called from get_or_create_session (it then returns the id) and from
\* create_message (it then looks the lead up).
update_last_active(w) ==
    /\ calls' = calls
    /\ proc[w].pc = "update_last_active"
    /\ LET job == proc[w]
       IN  /\ sessions' = {IF s.session_id = job.target
                           THEN [s EXCEPT !.last_active = job.stamp]
                           ELSE s : s \in sessions}
           /\ Finish(w,
                          IF job.op = "create_message"
                          THEN [job EXCEPT !.pc = "get_lead_by_session"]
                          ELSE Returned(job, 0, job.target))
    /\ UNCHANGED <<authVars, serving, now, messages, leads, nextSid, nextMsgId, nextLeadId,
                   brokerVars, consumerVars>>

\* crud.py:183-203  INSERT INTO sessions (session_id, created_at,
\* last_active): the statement gives no user_id, the column is NOT NULL,
\* the database rejects the row and the function re-raises.
create_session(w) ==
    /\ calls' = calls
    /\ proc[w].pc = "create_session"
    /\ LET job == proc[w]
           new_session == Session(nextSid, NULL, job.stamp)
       IN  IF SessionInsertAccepted(new_session)
           THEN /\ sessions' = sessions \cup {new_session}
                /\ nextSid' = nextSid + 1
                /\ Finish(w,
                               IF job.op = "create_message"
                               THEN [job EXCEPT !.pc = "update_last_active",
                                                !.session_id = nextSid,
                                                !.target = nextSid]
                               ELSE Returned(job, 0, nextSid))
           ELSE /\ UNCHANGED <<sessions, nextSid>>
                /\ Finish(w, Raised(job, 0))
    /\ UNCHANGED <<authVars, serving, now, messages, leads, nextMsgId, nextLeadId,
                   brokerVars, consumerVars>>

(***************************************************************************)
(* receive_message and the relay (src/messages/router.py).                 *)
(***************************************************************************)
Whitespace == {" "}

RECURSIVE LStrip(_)
LStrip(t) == IF t # <<>> /\ Head(t) \in Whitespace THEN LStrip(Tail(t)) ELSE t

RECURSIVE RStrip(_)
RStrip(t) ==
    IF t # <<>> /\ t[Len(t)] \in Whitespace
    THEN RStrip(SubSeq(t, 1, Len(t) - 1))
    ELSE t

\* str.strip()
Strip(t) == RStrip(LStrip(t))

\* A validator that accepts every text.
accept_any_text(value) == TRUE

\* messages/schemas.py:24-30  MessageCreate.validate_text
validate_text(value) == Strip(value) # <<>>

\* A relay failure that is logged and not raised: the caller goes on to its
\* success response.
relay_failure_logged(job) == Returned(job, 200, job.session_id)

\* router.py:177-181  except: rollback, log, raise.  receive_message does not
\* catch it: the request ends with an internal server error.
relay_failed(job) == Raised(job, 500)

\* A relay that skips no role.
RelayEveryRole(role) == TRUE

\* router.py:215  message_data.role != "BOT"
ShouldRelay(role) == role # "BOT"

\* router.py:216-222  the dict handed to send_to_rabbitmq
message_data_for_rabbitmq(new_message) ==
    [id |-> new_message.id,
     session_id |-> new_message.session_id, text |-> new_message.text,
     sender |-> new_message.sender, created_at |-> new_message.created_at]

\* router.py:185-199  request validation and the session look-up
receive_message(w, text, sender, role, session_id) ==
    /\ CanStart(w)
    /\ calls' = calls + 1
    /\ (nextMsgId - 1) + Running("receive_message") < MaxMessages
    /\ LET job == [Call("receive_message")
                       EXCEPT !.text = text, !.sender = sender, !.role = role,
                              !.session_id = session_id]
       IN  Finish(w,
              IF ~validate_text(text) THEN Raised(job, 422)
              ELSE IF session_id = 0 THEN Raised(job, 400)
              ELSE IF get_session(session_id) = {} THEN Raised(job, 404)
              ELSE [job EXCEPT !.pc = "insert_message"])
    /\ UNCHANGED <<authVars, serving, now, dbVars, brokerVars, consumerVars>>

\* router.py:202-211  db.add(new_message); commit
receive_message_commit(w) ==
    /\ calls' = calls
    /\ proc[w].pc = "insert_message"
    /\ LET job == proc[w]
           new_message == Message(nextMsgId, job.text, job.sender, job.role,
                                  job.session_id, job.stamp)
       IN  IF MessageInsertAccepted(new_message)
           THEN /\ messages' = messages \cup {new_message}
                /\ nextMsgId' = nextMsgId + 1
                /\ Finish(w,
                               [job EXCEPT !.pc = "refresh_message",
                                           !.target = nextMsgId])
           ELSE /\ UNCHANGED <<messages, nextMsgId>>
                /\ Finish(w, Raised(job, 500))
    /\ UNCHANGED <<authVars, serving, now, sessions, leads, nextSid, nextLeadId,
                   brokerVars, consumerVars>>

\* router.py:212-225  db.refresh(new_message), then the role test.  The
\* refresh of a row a sweep deleted meanwhile raises.
receive_message_refresh(w) ==
    /\ calls' = calls
    /\ proc[w].pc = "refresh_message"
    /\ LET job == proc[w]
       IN  IF job.target \notin MessageIds
           THEN /\ Finish(w, Raised(job, 500))
                /\ relayCalls' = relayCalls
           ELSE IF ShouldRelay(job.role)
           THEN /\ Finish(w, [job EXCEPT !.pc = "relay_select"])
                /\ relayCalls' = Append(relayCalls,
                                      [id |-> job.target, role |-> job.role])
           ELSE /\ Finish(w, Returned(job, 200, job.session_id))
                /\ relayCalls' = relayCalls
    /\ UNCHANGED <<authVars, serving, now, dbVars, declared, queues, publishLog,
                   produced, consumerVars>>

\* A lookup that treats the missing row as an error of the relay.
message_not_found_raises(job) == Raised(job, 500)

\* router.py:148-150  if not message: log "not found" and return.  The
\* relay returns None to receive_message, which answers at line 227.
message_not_found(job) == Returned(job, 200, job.session_id)

\* A flag write that leaves the row as it was.
mark_unsent(m) == m

\* router.py:152  message.is_sent_to_rabbitmq = True
mark_sent(m) == [m EXCEPT !.is_sent_to_rabbitmq = TRUE]

\* router.py:141-150  send_to_rabbitmq re-reads the row; a missing row is
\* logged and the function returns.
send_to_rabbitmq_select(w) ==
    /\ calls' = calls
    /\ proc[w].pc = "relay_select"
    /\ LET job == proc[w]
       IN  Finish(w,
              IF job.target \in MessageIds
              THEN [job EXCEPT !.pc = "relay_commit"]
              ELSE message_not_found(job))
    /\ UNCHANGED <<authVars, serving, now, dbVars, brokerVars, consumerVars>>

\* router.py:152-153  message.is_sent_to_rabbitmq = True; commit.  When the
\* row is gone the UPDATE matches nothing, the ORM raises, and the handler
\* at 177-181 rolls back and re-raises.
send_to_rabbitmq_commit(w) ==
    /\ calls' = calls
    /\ proc[w].pc = "relay_commit"
    /\ LET job == proc[w]
       IN  IF job.target \in MessageIds
           THEN /\ messages' = {IF m.id = job.target
                                THEN mark_sent(m)
                                ELSE m : m \in messages}
                /\ Finish(w, [job EXCEPT !.pc = "relay_publish"])
           ELSE /\ messages' = messages
                /\ Finish(w, relay_failed(job))
    /\ UNCHANGED <<authVars, serving, now, sessions, leads, nextSid, nextMsgId, nextLeadId,
                   brokerVars, consumerVars>>

\* A rollback that also takes back the insert of the message.
RollbackInsert(committed) == {m \in committed : ~m.is_sent_to_rabbitmq}

\* router.py:179  db_session.rollback() discards the changes of the open
\* transaction.  The flag was committed at line 153 and nothing was written
\* since, so the table is what it was.
Rollback(committed) == committed

BrokerOutcomes == {"published", "connect_failed", "publish_failed"}

\* A publish that hands the body to the broker twice.
publish_twice(queue, body) == Append(Append(queue, body), body)

\* router.py:167-173  channel.default_exchange.publish(...): one message,
\* appended to the queue the routing key names
publish(queue, body) == Append(queue, body)

\* router.py:157-181  connect, declare the queue, publish; on any exception
\* roll back and re-raise.
send_to_rabbitmq_publish(w) ==
    /\ calls' = calls
    /\ proc[w].pc = "relay_publish"
    /\ LET job == proc[w]
           body == message_data_for_rabbitmq(
                       Message(job.target, job.text, job.sender, job.role,
                               job.session_id, job.stamp))
       IN  \E outcome \in BrokerOutcomes :
              /\ declared' = IF outcome = "connect_failed"
                             THEN declared
                             ELSE declared \cup {RABBIT_QUEUE_NAME}
              /\ IF outcome = "published"
                 THEN /\ queues' = [queues EXCEPT ![RABBIT_QUEUE_NAME] =
                                        publish(@, body)]
                      /\ publishLog' = publish(publishLog, body)
                      /\ messages' = messages
                      /\ Finish(w,
                                     Returned(job, 200, job.session_id))
                 ELSE /\ UNCHANGED <<queues, publishLog>>
                      /\ messages' = Rollback(messages)
                      /\ Finish(w, relay_failed(job))
    /\ UNCHANGED <<authVars, serving, now, sessions, leads, nextSid, nextMsgId, nextLeadId,
                   relayCalls, produced, consumerVars>>

(***************************************************************************)
(* create_message and the lead (src/get_message/crud.py).                  *)
(***************************************************************************)
\* crud.py:10-24  get_session, then create_session or update_last_active
create_message(w, text, sender, session_id) ==
    /\ CanStart(w)
    /\ calls' = calls + 1
    /\ (nextLeadId - 1) + Running("create_message") < MaxLeads
    /\ LET job == [Call("create_message")
                       EXCEPT !.text = text, !.sender = sender, !.role = NULL,
                              !.session_id = session_id]
       IN  Finish(w,
              IF get_session(session_id) = {}
              THEN [job EXCEPT !.pc = "create_session"]
              ELSE [job EXCEPT !.pc = "update_last_active",
                               !.target = session_id])
    /\ UNCHANGED <<authVars, serving, now, dbVars, brokerVars, consumerVars>>

\* crud.py:63-80, called at crud.py:27-28
get_lead_by_session(w) ==
    /\ calls' = calls
    /\ proc[w].pc = "get_lead_by_session"
    /\ LET job == proc[w]
           lead == {l \in leads : l.session_id = job.session_id}
       IN  Finish(w,
              IF lead = {}
              THEN [job EXCEPT !.pc = "create_lead"]
              ELSE [job EXCEPT !.pc = "insert_message_crud"])
    /\ UNCHANGED <<authVars, serving, now, dbVars, brokerVars, consumerVars>>

\* crud.py:84-101  a Lead with the placeholder names of crud.py:90-91
\* ("New" / "Lead" in Russian, transliterated here); commit
PLACEHOLDER_FIRST_NAME == "Novyj"
PLACEHOLDER_LAST_NAME == "Lid"

create_lead(w) ==
    /\ calls' = calls
    /\ proc[w].pc = "create_lead"
    /\ LET job == proc[w]
           new_lead == Lead(nextLeadId, PLACEHOLDER_FIRST_NAME, PLACEHOLDER_LAST_NAME,
                            job.session_id)
       IN  IF LeadInsertAccepted(new_lead)
           THEN /\ leads' = leads \cup {new_lead}
                /\ nextLeadId' = nextLeadId + 1
                /\ Finish(w,
                               [job EXCEPT !.pc = "insert_message_crud"])
           ELSE /\ UNCHANGED <<leads, nextLeadId>>
                /\ Finish(w, Raised(job, 0))
    /\ UNCHANGED <<authVars, serving, now, sessions, messages, nextSid, nextMsgId,
                   brokerVars, consumerVars>>

\* crud.py:32-59  Message(text, sender, session_id); commit.  The row has
\* no role, the column is NOT NULL, the database rejects it and
\* create_message re-raises.
create_message_commit(w) ==
    /\ calls' = calls
    /\ proc[w].pc = "insert_message_crud"
    /\ LET job == proc[w]
           db_message == Message(nextMsgId, job.text, job.sender, job.role,
                                 job.session_id, now)
       IN  IF MessageInsertAccepted(db_message)
           THEN /\ messages' = messages \cup {db_message}
                /\ nextMsgId' = nextMsgId + 1
                /\ Finish(w,
                               Returned([job EXCEPT !.target = nextMsgId],
                                        0, job.session_id))
           ELSE /\ UNCHANGED <<messages, nextMsgId>>
                /\ Finish(w, Raised(job, 0))
    /\ UNCHANGED <<authVars, serving, now, sessions, leads, nextSid, nextLeadId,
                   brokerVars, consumerVars>>

(***************************************************************************)
(* The expiry sweep (src/messages/router.py).                              *)
(***************************************************************************)
\* A sweep that also takes the sessions whose last_active is on the cutoff.
ExpiredSessionsInclusive(t) ==
    {s.session_id : s \in {x \in sessions : x.last_active <= t - SESSION_LIFETIME}}

\* router.py:268-270  the rows with last_active < utcnow() - SESSION_LIFETIME
ExpiredSessions(t) ==
    {s.session_id : s \in {x \in sessions : x.last_active < t - SESSION_LIFETIME}}

\* A delete of a session that leaves its messages behind.
MessagesKept(session_id) == messages

\* models.py:20,48-49,67  deleting a session deletes its messages and leads
\* (ORM cascade "all, delete-orphan" and ON DELETE CASCADE).
MessagesAfterDelete(session_id) == {m \in messages : m.session_id # session_id}
LeadsAfterDelete(session_id) == {l \in leads : l.session_id # session_id}

cleanup_expired_sessions(w) ==
    /\ CanStart(w)
    /\ calls' = calls + 1
    /\ LET job == [Call("cleanup_expired_sessions")
                       EXCEPT !.todo = ExpiredSessions(now)]
       IN  Finish(w,
              IF job.todo = {} THEN Returned(job, 0, 0)
              ELSE [job EXCEPT !.pc = "delete_session"])
    /\ UNCHANGED <<authVars, serving, now, dbVars, brokerVars, consumerVars>>

\* router.py:272-275  one turn of the loop: db.delete(session); commit
cleanup_delete(w) ==
    /\ calls' = calls
    /\ proc[w].pc = "delete_session"
    /\ LET job == proc[w]
       IN  \E session_id \in job.todo :
              /\ sessions' = {s \in sessions : s.session_id # session_id}
              /\ messages' = MessagesAfterDelete(session_id)
              /\ leads' = LeadsAfterDelete(session_id)
              /\ Finish(w,
                             IF job.todo = {session_id}
                             THEN Returned(job, 0, 0)
                             ELSE [job EXCEPT !.todo = @ \ {session_id}])
    /\ UNCHANGED <<authVars, serving, now, nextSid, nextMsgId, nextLeadId,
                   brokerVars, consumerVars>>

\* consumer.py:22-40  connect, declare 'my_queue', register the callback
consume ==
    /\ consumerPc = "stopped"
    /\ consumerPc' = "consuming"
    /\ declared' = declared \cup {CONSUMER_QUEUE_NAME}
    /\ last' = Idle
    /\ calls' = calls
    /\ UNCHANGED <<authVars, serving, now, dbVars, proc, queues, publishLog,
                   relayCalls, produced, delivered, acked, rejected, raisedOut>>

\* A body that is not valid UTF-8.
UndecodableBody ==
    [id |-> 0, session_id |-> 0, text |-> <<"\\xff">>, sender |-> "",
     created_at |-> 0]

\* consumer.py:9  the callback takes whatever the broker delivers from
\* 'my_queue'; any client of the broker can publish any bytes to it.
foreign_publish ==
    /\ CONSUMER_QUEUE_NAME \in declared
    /\ Len(SelectSeq(queues[CONSUMER_QUEUE_NAME], LAMBDA b : b = UndecodableBody))
          + Len(SelectSeq(acked \o rejected, LAMBDA x : x.body = UndecodableBody))
          < MaxUndecodable
    /\ queues' = [queues EXCEPT ![CONSUMER_QUEUE_NAME] = Append(@, UndecodableBody)]
    /\ last' = Idle
    /\ calls' = calls
    /\ UNCHANGED <<authVars, serving, now, dbVars, proc, declared, publishLog,
                   relayCalls, produced, consumerVars>>

\* consumer.py:12  message.body.decode() raises UnicodeDecodeError exactly
\* for a body that is not valid UTF-8; the two log calls do not raise.
processing_raises(body) == body = UndecodableBody

\* One settlement of a delivery as the broker sees it.
Settlement(delivery_tag, body, requeue) ==
    [delivery_tag |-> delivery_tag, body |-> body, requeue |-> requeue]

\* IncomingMessage.processed: the delivery was acknowledged or rejected
\* through this message object.
processed(delivery_tag) ==
    \E i \in DOMAIN (acked \o rejected) :
        (acked \o rejected)[i].delivery_tag = delivery_tag

\* A context manager that acknowledges however its block ends.
process_always_acks(raised) == "ack"

\* consumer.py:11  async with message.process(): the context manager
\* acknowledges when its block ends normally; when the block raises it
\* rejects with its default requeue=False and lets the exception pass.
process(raised) == IF raised THEN "reject" ELSE "ack"

\* consumer.py:9-14  one delivery: decode and log inside message.process().
\* A block that raised continues in the except branch.
callback ==
    /\ consumerPc = "consuming"
    /\ queues[CONSUMER_QUEUE_NAME] # <<>>
    /\ LET message == Head(queues[CONSUMER_QUEUE_NAME])
           delivery_tag == delivered + 1
           raised == processing_raises(message)
           settlement == Settlement(delivery_tag, message, FALSE)
       IN  /\ delivered' = delivery_tag
           /\ queues' = [queues EXCEPT ![CONSUMER_QUEUE_NAME] = Tail(@)]
           /\ IF process(raised) = "ack"
              THEN acked' = Append(acked, settlement) /\ rejected' = rejected
              ELSE rejected' = Append(rejected, settlement) /\ acked' = acked
           /\ consumerPc' = IF raised THEN "except" ELSE "consuming"
    /\ last' = Idle
    /\ calls' = calls
    /\ UNCHANGED <<authVars, serving, now, dbVars, proc, declared, publishLog,
                   relayCalls, produced, raisedOut>>

\* consumer.py:15-17  except Exception: log, await message.reject(
\* requeue=False).  reject() on a message that is already processed raises
\* MessageProcessError before anything is sent to the broker; nothing
\* catches it, so it leaves the callback.  The error of a callback task is
\* logged by the event loop and the consumer goes on with the next delivery.
callback_except ==
    /\ consumerPc = "except"
    /\ consumerPc' = "consuming"
    /\ IF processed(delivered)
       THEN /\ raisedOut' = Append(raisedOut, delivered)
            /\ rejected' = rejected
       ELSE /\ raisedOut' = raisedOut
            /\ rejected' = Append(rejected,
                                  Settlement(delivered, UndecodableBody, FALSE))
    /\ last' = Idle
    /\ calls' = calls
    /\ UNCHANGED <<authVars, serving, now, dbVars, proc, brokerVars,
                   delivered, acked>>

\* producer.py:38-39  the test message main() sends: a body that carries
\* no message id
TestBody ==
    [id |-> 0, session_id |-> 0, text |-> <<"t", "e", "s", "t">>,
     sender |-> "", created_at |-> 0]

\* producer.py:9-35  passive declare of 'my_queue' (return when it does not
\* exist), then publish to it
send_message ==
    /\ produced < MaxProduced
    /\ produced' = produced + 1
    /\ queues' = IF CONSUMER_QUEUE_NAME \in declared
                 THEN [queues EXCEPT ![CONSUMER_QUEUE_NAME] = publish(@, TestBody)]
                 ELSE queues
    /\ last' = Idle
    /\ calls' = calls
    /\ UNCHANGED <<authVars, serving, now, dbVars, proc, declared, publishLog,
                   relayCalls, consumerVars>>

(***************************************************************************)
(* Specifications.                                                         *)
(***************************************************************************)
Next ==
    \/ Tick
    \/ \E w \in Workers, u \in Users : get_or_create_session(w, u)
    \/ \E w \in Workers : get_or_create_session_commit(w)
    \/ \E w \in Workers : create_new_session(w)
    \/ \E w \in Workers, sid \in KnownSids :
          get_message_get_or_create_session(w, sid)
    \/ \E w \in Workers : update_last_active(w)
    \/ \E w \in Workers : create_session(w)
    \/ \E w \in Workers, text \in Texts, sender \in Senders, role \in Roles,
          sid \in KnownSids \cup {0} :
          receive_message(w, text, sender, role, sid)
    \/ \E w \in Workers : receive_message_commit(w)
    \/ \E w \in Workers : receive_message_refresh(w)
    \/ \E w \in Workers : send_to_rabbitmq_select(w)
    \/ \E w \in Workers : send_to_rabbitmq_commit(w)
    \/ \E w \in Workers : send_to_rabbitmq_publish(w)
    \/ \E w \in Workers, text \in Texts, sender \in Senders, sid \in KnownSids :
          create_message(w, text, sender, sid)
    \/ \E w \in Workers : get_lead_by_session(w)
    \/ \E w \in Workers : create_lead(w)
    \/ \E w \in Workers : create_message_commit(w)
    \/ \E w \in Workers : cleanup_expired_sessions(w)
    \/ \E w \in Workers : cleanup_delete(w)

\* Requests are served concurrently: the coroutines interleave at every await.
Spec == Init /\ [][Next]_vars

\* Requests are served one at a time: a handler runs to its end before the
\* next one starts.
SeqSpec == SeqInit /\ [][Next]_vars

\* The relay and the queue workers: sessions are created, messages are
\* received and relayed, the consumer drains its queue.  The event loop runs
\* every coroutine that is ready, so a call in flight takes its next step
\* and the consume() task started at main.py:86-89 is not starved.
InFlight(w) ==
    \/ get_or_create_session_commit(w)
    \/ create_new_session(w)
    \/ receive_message_commit(w)
    \/ receive_message_refresh(w)
    \/ send_to_rabbitmq_select(w)
    \/ send_to_rabbitmq_commit(w)
    \/ send_to_rabbitmq_publish(w)

PipelineNext ==
    \/ \E w \in Workers, u \in Users : get_or_create_session(w, u)
    \/ \E w \in Workers, text \in Texts, sender \in Senders, role \in Roles,
          sid \in KnownSids \cup {0} :
          receive_message(w, text, sender, role, sid)
    \/ \E w \in Workers : InFlight(w)
    \/ consume
    \/ callback
    \/ callback_except
    \/ send_message
    \/ foreign_publish

PipelineSpec ==
    /\ Init
    /\ [][PipelineNext]_vars
    /\ \A w \in Workers : WF_vars(InFlight(w))
    /\ WF_vars(consume)
    /\ WF_vars(callback)
    /\ WF_vars(callback_except)

(***************************************************************************)
(* The read paths: the listings of one session's messages and the two      *)
(* chat lists (src/messages/router.py, src/get_message/router.py,          *)
(* src/get_message/crud.py).  A query without ORDER BY returns its rows in  *)
(* whatever order the database produces them; ORDER BY fixes the order up  *)
(* to rows with equal keys.                                                *)
(***************************************************************************)
\* The sequences that hold every element of S once.
Orderings(S) ==
    {f \in [1..Cardinality(S) -> S] : \A x \in S : \E i \in DOMAIN f : f[i] = x}

\* ORDER BY messages.id ASC
OrderedById(S) ==
    {f \in Orderings(S) : \A i, j \in DOMAIN f : i < j => f[i].id <= f[j].id}

\* ORDER BY messages.created_at ASC.  The clock of the model counts minutes;
\* with one request at a time two rows stamped in the same minute were
\* stamped at different instants, the one with the smaller id first.
OrderedByCreatedAt(S) ==
    {f \in Orderings(S) :
        \A i, j \in DOMAIN f :
            i < j => \/ f[i].created_at < f[j].created_at
                     \/ /\ f[i].created_at = f[j].created_at
                        /\ f[i].id <= f[j].id}

\* The ids of a result, in the order of the result.
Ids(result) == [i \in DOMAIN result |-> result[i].id]

\* messages/router.py:80-97
get_message_history(w, session_id) ==
    /\ CanStart(w)
    /\ calls' = calls + 1
    /\ LET job == [Call("get_message_history") EXCEPT !.session_id = session_id]
           found == {m \in messages : m.session_id = session_id}
       IN  \E result \in OrderedById(found) :
              Finish(w, IF result = <<>>
                        THEN Raised(job, 404)
                        ELSE Returned([job EXCEPT !.rows = Ids(result)], 200, 0))
    /\ UNCHANGED <<authVars, serving, now, dbVars, brokerVars, consumerVars>>

\* messages/router.py:230-261
get_lead_and_bot_messages(w, session_id) ==
    /\ CanStart(w)
    /\ calls' = calls + 1
    /\ LET job == [Call("get_lead_and_bot_messages")
                       EXCEPT !.session_id = session_id]
           found == {m \in messages : /\ m.session_id = session_id
                                      /\ m.role \in {"LEAD", "BOT"}}
       IN  \E result \in OrderedByCreatedAt(found) :
              Finish(w, IF result = <<>>
                        THEN Raised(job, 404)
                        ELSE Returned([job EXCEPT !.rows = Ids(result)], 200, 0))
    /\ UNCHANGED <<authVars, serving, now, dbVars, brokerVars, consumerVars>>

\* crud.py:105-120  select(Message).where(session_id == ...): no ORDER BY
get_messages_for_user(w, session_id) ==
    /\ CanStart(w)
    /\ calls' = calls + 1
    /\ LET job == [Call("get_messages_for_user") EXCEPT !.session_id = session_id]
           found == {m \in messages : m.session_id = session_id}
       IN  \E result \in Orderings(found) :
              Finish(w, Returned([job EXCEPT !.rows = Ids(result)], 0, 0))
    /\ UNCHANGED <<authVars, serving, now, dbVars, brokerVars, consumerVars>>

\* The time of an entry that carries none.
NoTime == -1

\* An entry of a chat list.  last_message_id is the row the text was taken
\* from (0 when the session has no message); it is not part of the response.
Chat(session_id, first_name, last_name, id, text, created_at) ==
    [session_id |-> session_id, first_name |-> first_name,
     last_name |-> last_name, last_message_id |-> id,
     last_message |-> text, last_message_time |-> created_at]

\* messages/router.py:112-113 and get_message/router.py:166  "no messages
\* yet" (Russian in the source)
NO_MESSAGES_YET == <<"-">>

\* messages/router.py:117-131  the entry of one session.  session.messages
\* is loaded without an order, so messages[-1] is whichever row came last;
\* session.lead (uselist=False) is one of the session's leads.
ChatEntries(session) ==
    LET mine == {m \in messages : m.session_id = session.session_id}
        lead == {l \in leads : l.session_id = session.session_id}
        names == IF lead = {}
                 THEN {<<NULL, NULL>>}
                 ELSE {<<l.first_name, l.last_name>> : l \in lead}
    IN  IF mine = {}
        THEN {Chat(session.session_id, n[1], n[2], 0, NO_MESSAGES_YET, NoTime)
                 : n \in names}
        ELSE {Chat(session.session_id, x[1][1], x[1][2], x[2].id, x[2].text,
                   x[2].created_at) : x \in names \X mine}

\* messages/router.py:99-134
get_chats_with_last_message(w) ==
    /\ CanStart(w)
    /\ calls' = calls + 1
    /\ LET job == Call("get_chats_with_last_message")
       IN  IF sessions = {}
           THEN Finish(w, Raised(job, 404))
           ELSE \E order \in Orderings(sessions) :
                   \E chats \in [DOMAIN order ->
                                    UNION {ChatEntries(x) : x \in sessions}] :
                      /\ \A i \in DOMAIN order : chats[i] \in ChatEntries(order[i])
                      /\ Finish(w, Returned([job EXCEPT !.chats = chats], 200, 0))
    /\ UNCHANGED <<authVars, serving, now, dbVars, brokerVars, consumerVars>>

\* get_message/router.py:153-160  the text of the session's message with the
\* greatest id
LastMessage(session_id) ==
    LET mine == {m \in messages : m.session_id = session_id}
    IN  {m \in mine : \A x \in mine : x.id <= m.id}

\* get_message/router.py:139-148  sessions LEFT OUTER JOIN leads: one row
\* per session and lead, one row for a session without a lead
SessionsOuterJoinLeads ==
    UNION {LET lead == {l \in leads : l.session_id = s.session_id}
           IN  IF lead = {}
               THEN {[session_id |-> s.session_id, first_name |-> NULL,
                      last_name |-> NULL]}
               ELSE {[session_id |-> s.session_id, first_name |-> l.first_name,
                      last_name |-> l.last_name] : l \in lead}
           : s \in sessions}

\* get_message/router.py:133-173  the entries carry no time
get_leads_with_last_message(w) ==
    /\ CanStart(w)
    /\ calls' = calls + 1
    /\ LET job == Call("get_leads_with_last_message")
       IN  \E order \in Orderings(SessionsOuterJoinLeads) :
              LET entry(row) ==
                      LET m == LastMessage(row.session_id)
                      IN  IF m = {}
                          THEN Chat(row.session_id, row.first_name, row.last_name,
                                    0, NO_MESSAGES_YET, NoTime)
                          ELSE LET x == CHOOSE y \in m : TRUE
                               IN  Chat(row.session_id, row.first_name,
                                        row.last_name, x.id, x.text, NoTime)
              IN  Finish(w, Returned([job EXCEPT !.chats =
                                 [i \in DOMAIN order |-> entry(order[i])]], 200, 0))
    /\ UNCHANGED <<authVars, serving, now, dbVars, brokerVars, consumerVars>>

\* The path parameter of a request that is no UUID.
MalformedSid == -1

\* get_message/router.py:91-93  UUID(session_id, version=4) raises
\* ValueError for a string that is no UUID.  The ids the store hands out
\* and the one never handed out are UUIDs.
IsUUID(session_id) == session_id > 0

\* get_message/router.py:107-109  except Exception as e: log and raise
\* HTTPException(500, detail=str(e)).  HTTPException is an Exception, so the
\* 400 and the 404 raised inside the try block end here as well.
internal_server_error(job, raised) == Raised(job, 500)

\* get_message/router.py:88-101  the format check and the session look-up
list_messages_for_session(w, session_id) ==
    /\ CanStart(w)
    /\ calls' = calls + 1
    /\ LET job == [Call("list_messages_for_session")
                       EXCEPT !.session_id = session_id]
       IN  Finish(w,
              IF ~IsUUID(session_id) THEN internal_server_error(job, 400)
              ELSE IF get_session(session_id) = {}
              THEN internal_server_error(job, 404)
              ELSE [job EXCEPT !.pc = "get_all_messages"])
    /\ UNCHANGED <<authVars, serving, now, dbVars, brokerVars, consumerVars>>

\* get_message/router.py:104-106  get_all_messages(db, session_id=...) and
\* the return.  crud.py does not define the function the router imports;
\* its result is taken to be the messages of the session in any order.
get_all_messages(w) ==
    /\ calls' = calls
    /\ proc[w].pc = "get_all_messages"
    /\ LET job == proc[w]
           found == {m \in messages : m.session_id = job.session_id}
       IN  \E result \in Orderings(found) :
              Finish(w, Returned([job EXCEPT !.rows = Ids(result)], 200, 0))
    /\ UNCHANGED <<authVars, serving, now, dbVars, brokerVars, consumerVars>>

\* Messages are written and read, one request at a time.
ReadNext ==
    \/ Tick
    \/ \E w \in Workers, u \in Users : get_or_create_session(w, u)
    \/ \E w \in Workers : get_or_create_session_commit(w)
    \/ \E w \in Workers : create_new_session(w)
    \/ \E w \in Workers, text \in Texts, sender \in Senders, role \in Roles,
          sid \in KnownSids \cup {0} :
          receive_message(w, text, sender, role, sid)
    \/ \E w \in Workers : receive_message_commit(w)
    \/ \E w \in Workers : receive_message_refresh(w)
    \/ \E w \in Workers : send_to_rabbitmq_select(w)
    \/ \E w \in Workers : send_to_rabbitmq_commit(w)
    \/ \E w \in Workers : send_to_rabbitmq_publish(w)
    \/ \E w \in Workers, text \in Texts, sender \in Senders, sid \in KnownSids :
          create_message(w, text, sender, sid)
    \/ \E w \in Workers : update_last_active(w)
    \/ \E w \in Workers : create_session(w)
    \/ \E w \in Workers : get_lead_by_session(w)
    \/ \E w \in Workers : create_lead(w)
    \/ \E w \in Workers : create_message_commit(w)
    \/ \E w \in Workers, sid \in KnownSids : get_message_history(w, sid)
    \/ \E w \in Workers, sid \in KnownSids : get_lead_and_bot_messages(w, sid)
    \/ \E w \in Workers, sid \in KnownSids : get_messages_for_user(w, sid)
    \/ \E w \in Workers : get_chats_with_last_message(w)
    \/ \E w \in Workers : get_leads_with_last_message(w)
    \/ \E w \in Workers, sid \in KnownSids \cup {MalformedSid} :
          list_messages_for_session(w, sid)
    \/ \E w \in Workers : get_all_messages(w)

ReadSpec == SeqInit /\ [][ReadNext]_vars

(***************************************************************************)
(* The auth routes check_auth and logout (src/users/auth/router.py).  Each  *)
(* is one step: check_auth reads the users table once, logout touches only *)
(* request.session.  The users table and the client's session are inputs:  *)
(* the routes are checked for every table and every session content drawn  *)
(* from the sets below.                                                    *)
(***************************************************************************)
\* The value of user_id when the dependency resolves none (None).
NoUserId == -1

\* The rows the users table may hold: check_auth reads id, username, email,
\* status and is_admin (router.py:121-129).
UserPool ==
    {[id |-> 1, username |-> "testuser", email |-> "test@example.com",
      status |-> "active", is_admin |-> FALSE],
     [id |-> 2, username |-> "root", email |-> "root@example.com",
      status |-> "active", is_admin |-> TRUE],
     [id |-> 3, username |-> "guest", email |-> "guest@example.com",
      status |-> "blocked", is_admin |-> FALSE]}

\* The user_id values the dependency get_request_user_id hands to check_auth:
\* none, zero, the id of a row of the pool, an id of no row.
RequestUserIds == {NoUserId, 0, 1, 2, 3, 999}

SessionKeys == {"access_token", "state"}
SessionValues == {"t1", "t2"}
SessionContents == UNION {[K -> SessionValues] : K \in SUBSET SessionKeys}

NoUser ==
    [id |-> NoUserId, username |-> "", email |-> "", status |-> "", role |-> "",
     is_admin |-> FALSE]

\* A response: the route, the user_id it was called with, the HTTP status,
\* the detail or message of the body, and the body's user object.
Response(op, user_id, status, message, user) ==
    [op |-> op, user_id |-> user_id, status |-> status, message |-> message,
     user |-> user]

\* router.py:104, 113  the details of the two errors (Russian in the source:
\* "token is missing or invalid", "user not found"; transliterated)
DETAIL_NO_TOKEN == "Token otsutstvuet ili nedejstvitelen"
DETAIL_NO_USER == "Pol'zovatel' ne najden"

\* Python's truth value of user_id: None and 0 are false.
Truthy(user_id) == user_id \notin {NoUserId, 0}

\* users/logic.py:39-49  scalar_one_or_none() over the primary key
get_user_by_id(user_id) == {u \in users : u.id = user_id}

\* Every user has the role "user".
role_user(is_admin) == "user"

\* router.py:116  role = "admin" if is_admin else "user"
role_of(is_admin) == IF is_admin THEN "admin" ELSE "user"

\* router.py:91-131
check_auth(user_id) ==
    /\ Len(responses) < MaxRequests
    /\ LET user == get_user_by_id(user_id)
       IN  responses' = Append(responses,
              IF ~Truthy(user_id)
              THEN Response("check_auth", user_id, 403, DETAIL_NO_TOKEN, NoUser)
              ELSE IF user = {}
              THEN Response("check_auth", user_id, 404, DETAIL_NO_USER, NoUser)
              ELSE LET u == CHOOSE x \in user : TRUE
                   IN  Response("check_auth", user_id, 200, "authorized",
                          [id |-> u.id, username |-> u.username,
                           email |-> u.email, status |-> u.status,
                           role |-> role_of(u.is_admin),
                           is_admin |-> u.is_admin]))
    /\ UNCHANGED <<serving, calls, now, dbVars, proc, last, brokerVars,
                   consumerVars, users, request_session, cookies>>

\* A pop that leaves the key in place.
session_keep(session, key) == session

\* router.py:253  request.session.pop("access_token")
session_pop(session, key) == [k \in (DOMAIN session) \ {key} |-> session[k]]

\* router.py:243-263
logout ==
    /\ Len(responses) < MaxRequests
    /\ IF "access_token" \in DOMAIN request_session
       THEN /\ request_session' = session_pop(request_session, "access_token")
            /\ cookies' = cookies \ {"my_session"}
            /\ responses' = Append(responses,
                  Response("logout", NoUserId, 200, "Logout successful", NoUser))
       ELSE /\ request_session' = request_session
            /\ cookies' = cookies
            /\ responses' = Append(responses,
                  Response("logout", NoUserId, 400, "No active session found",
                           NoUser))
    /\ UNCHANGED <<serving, calls, now, dbVars, proc, last, brokerVars,
                   consumerVars, users>>

\* The credentials a client may post: the e-mail of each row of the pool
\* and one of no row; the password of the row and another one.
Emails == {u.email : u \in UserPool} \cup {"nobody@example.com"}
Passwords == {"secret", "wrong"}

\* router.py:49, 79-84  auth_service.login(email, password): the user and an
\* access token, or one of the three exceptions the route maps.  The service
\* is not part of the sources; the cases are those of the except clauses:
\* no row for the e-mail, a wrong password, a user the admin has not
\* confirmed.
login(email, password) ==
    LET user == {u \in users : u.email = email}
    IN  IF user = {} THEN "UserNotFoundException"
        ELSE IF password # "secret" THEN "UserNotCorrectPasswordException"
        ELSE IF \E u \in user : u.status # "active"
        THEN "UserNotConfirmedByAdminException"
        ELSE "logged_in"

\* router.py:36-84  on success the token goes into the cookie access_token
\* of the response (58-67) and into the body (69-77); request.session is
\* not written.
login_post(email, password) ==
    /\ Len(responses) < MaxRequests
    /\ LET outcome == login(email, password)
           user == {u \in users : u.email = email}
       IN  IF outcome = "logged_in"
           THEN /\ cookies' = cookies \cup {"access_token"}
                /\ responses' = Append(responses,
                      LET u == CHOOSE x \in user : TRUE
                      IN  Response("login_post", u.id, 200, "authorized",
                             [NoUser EXCEPT !.id = u.id,
                                            !.username = u.username,
                                            !.email = u.email]))
           ELSE /\ cookies' = cookies
                /\ responses' = Append(responses,
                      Response("login_post", NoUserId,
                               IF outcome = "UserNotConfirmedByAdminException"
                               THEN 403 ELSE 404,
                               outcome, NoUser))
    /\ UNCHANGED <<serving, calls, now, dbVars, proc, last, brokerVars,
                   consumerVars, users, request_session>>

AuthInit ==
    /\ serving = "auth"
    /\ StoreStart
    /\ users \in SUBSET UserPool
    /\ request_session \in SessionContents
    /\ cookies = {}
    /\ responses = <<>>

AuthNext ==
    \/ \E user_id \in RequestUserIds : check_auth(user_id)
    \/ logout
    \/ \E email \in Emails, password \in Passwords : login_post(email, password)

AuthSpec == AuthInit /\ [][AuthNext]_vars

\* A client that starts without cookies: its request.session is empty.
LoginInit ==
    /\ serving = "auth"
    /\ StoreStart
    /\ users \in SUBSET UserPool
    /\ request_session = EmptySession
    /\ cookies = {}
    /\ responses = <<>>

LoginSpec == LoginInit /\ [][AuthNext]_vars

(***************************************************************************)
(* Properties.  A property about one call reads last: the call the latest  *)
(* step completed, with the tables as the call found them (last.pre) and   *)
(* the tables as it left them (the current state).  Under SeqSpec nothing  *)
(* else ran in between.                                                    *)
(***************************************************************************)

\* C1  Session continuity.  When the key of a resolve has a session whose
\* last_active is within the TTL, the resolve returns the id of that session,
\* sets its last_active to the time of the call and adds no session row.
\* Both flows: by user_id (TTL SESSION_LIFETIME) and by session_id (TTL
\* SESSION_TIMEOUT).
SessionContinuity ==
    /\ last.op = "get_or_create_session" =>
          LET within == {s \in last.pre.sessions :
                            /\ s.user_id = last.user_id
                            /\ ~IsExpired(last.pre.now, s.last_active)}
          IN  within # {} =>
                 /\ last.outcome = "returned"
                 /\ last.ret \in {s.session_id : s \in within}
                 /\ SessionIds = {s.session_id : s \in last.pre.sessions}
                 /\ \A s \in sessions :
                       s.session_id = last.ret => s.last_active = last.pre.now
    /\ last.op = "get_message_get_or_create_session" =>
          LET within == {s \in last.pre.sessions :
                            /\ s.session_id = last.session_id
                            /\ IsActive(last.pre.now, s.last_active)}
          IN  within # {} =>
                 /\ last.outcome = "returned"
                 /\ last.ret = last.session_id
                 /\ SessionIds = {s.session_id : s \in last.pre.sessions}
                 /\ \A s \in sessions :
                       s.session_id = last.ret => s.last_active = last.pre.now

\* C2  Relay rollback.  When the relay of a message fails at the broker
\* (connect, declare or publish raises), the message's is_sent_to_rabbitmq
\* flag in the table is what it was before the call: false.
RelayRollback ==
    (/\ last.op = "receive_message"
     /\ last.at = "relay_publish"
     /\ last.outcome = "raised") =>
        \A m \in messages : m.id = last.target => ~m.is_sent_to_rabbitmq

AtMostOnceForwarding ==
    /\ \A i, j \in DOMAIN publishLog :
          publishLog[i].id = publishLog[j].id => i = j
    /\ \A i, j \in DOMAIN queues[RABBIT_QUEUE_NAME] :
          queues[RABBIT_QUEUE_NAME][i].id = queues[RABBIT_QUEUE_NAME][j].id => i = j

\* Two messages were relayed: one relay failed after its flag was set, the
\* other one published.
AtMostOnceForwardingWitness ==
    /\ Len(relayCalls) = 2
    /\ Len(publishLog) = 1
    /\ \E m \in messages :
          /\ m.is_sent_to_rabbitmq
          /\ \A i \in DOMAIN publishLog : publishLog[i].id # m.id

\* C5  Relay-to-consumer data flow.  Every message the relay published is
\* eventually acknowledged by the consumer's callback.
RelayToConsumer ==
    \A id \in 1..MaxMessages :
        (\E i \in DOMAIN publishLog : publishLog[i].id = id)
            ~> (\E j \in DOMAIN acked : acked[j].body.id = id)

\* C6  Session expiry.  A resolve whose key has a session, all of them with
\* last_active older than the TTL, returns a fresh session_id, and leaves
\* every row it found in place; no call but the sweep removes a session.
SessionExpiry ==
    /\ last.op = "get_or_create_session" =>
          LET mine == {s \in last.pre.sessions : s.user_id = last.user_id}
          IN  (mine # {} /\ \A s \in mine : IsExpired(last.pre.now, s.last_active)) =>
                 /\ last.outcome = "returned"
                 /\ last.ret \notin {s.session_id : s \in last.pre.sessions}
                 /\ last.ret \in SessionIds
                 /\ last.pre.sessions \subseteq sessions
                 /\ messages = last.pre.messages
                 /\ leads = last.pre.leads
    /\ last.op = "get_message_get_or_create_session" =>
          LET mine == {s \in last.pre.sessions : s.session_id = last.session_id}
          IN  (mine # {} /\ \A s \in mine : ~IsActive(last.pre.now, s.last_active)) =>
                 /\ last.outcome = "returned"
                 /\ last.ret \notin {s.session_id : s \in last.pre.sessions}
                 /\ last.ret \in SessionIds
                 /\ last.pre.sessions \subseteq sessions
                 /\ messages = last.pre.messages
                 /\ leads = last.pre.leads
    /\ last.op \notin {"none", "cleanup_expired_sessions"} =>
          {s.session_id : s \in last.pre.sessions} \subseteq SessionIds

\* C7  Expiry sweep.  When cleanup_expired_sessions has completed, the
\* sessions are the sessions it found whose last_active is not older than
\* the cutoff (its start time minus the TTL), and the messages and leads are
\* the ones it found that belong to a remaining session.
ExpirySweep ==
    (last.op = "cleanup_expired_sessions" /\ last.outcome = "returned") =>
        /\ sessions = {s \in last.pre.sessions :
                          ~(s.last_active < last.pre.now - SESSION_LIFETIME)}
        /\ messages = {m \in last.pre.messages : m.session_id \in SessionIds}
        /\ leads = {l \in last.pre.leads : l.session_id \in SessionIds}

\* A sweep deleted a session that had a message and a lead, and kept
\* another session.
ExpirySweepWitness ==
    /\ last.op = "cleanup_expired_sessions"
    /\ last.outcome = "returned"
    /\ sessions # {}
    /\ \E s \in last.pre.sessions :
          /\ s \notin sessions
          /\ \E m \in last.pre.messages : m.session_id = s.session_id
          /\ \E l \in last.pre.leads : l.session_id = s.session_id

\* C8  last_active bump.  A call (receive_message, create_message) that
\* persisted a message leaves the message's session with last_active equal
\* to the time of the message.
LastActiveBump ==
    (/\ last.op \in {"receive_message", "create_message"}
     /\ last.outcome = "returned") =>
        \A m \in messages :
            m.id = last.target =>
                \A s \in sessions :
                    s.session_id = m.session_id => s.last_active = m.created_at

\* C9  At most one lead per session, in every reachable state.
OneLeadPerSession ==
    \A s \in sessions :
        Cardinality({l \in leads : l.session_id = s.session_id}) <= 1

\* C10  Lazy lead creation.  A LEAD message accepted for a session leaves
\* the session with exactly one lead, which has the placeholder names when
\* the call found none; the message is stored with role LEAD and its text
\* was published exactly once.
LazyLeadCreation ==
    (/\ last.op = "receive_message"
     /\ last.role = "LEAD"
     /\ last.outcome = "returned"
     /\ last.status = 200) =>
        LET mine == {l \in leads : l.session_id = last.session_id}
            found == {l \in last.pre.leads : l.session_id = last.session_id}
        IN  /\ Cardinality(mine) = 1
            /\ found = {} =>
                  \A l \in mine : /\ l.first_name = PLACEHOLDER_FIRST_NAME
                                  /\ l.last_name = PLACEHOLDER_LAST_NAME
            /\ found # {} => mine = found
            /\ \E m \in messages : m.id = last.target /\ m.role = "LEAD"
            /\ Cardinality({i \in DOMAIN publishLog :
                               /\ publishLog[i].id = last.target
                               /\ publishLog[i].text = last.text}) = 1

\* C11  User-visible relay failure.  A receive_message call that persisted
\* its message reports it as accepted (200) to its caller, whether or not
\* the relay to the broker succeeded.
RelayFailureHidden ==
    (/\ last.op = "receive_message"
     /\ \E m \in messages : m.id = last.target) =>
        /\ last.outcome = "returned"
        /\ last.status = 200

\* C12  Relay failure frame.  When the relay of a message has run to the
\* broker step, failed or not, the message row is in the table with the
\* text, sender, role, session_id and created_at it was stored with, every
\* other message is as the call found it, and no session or lead row has
\* changed.
RelayFailureFrame ==
    (last.op = "receive_message" /\ last.at = "relay_publish") =>
        /\ \E m \in messages :
              /\ m.id = last.target
              /\ m.text = last.text
              /\ m.sender = last.sender
              /\ m.role = last.role
              /\ m.session_id = last.session_id
              /\ m.created_at = last.stamp
        /\ {m \in messages : m.id # last.target} = last.pre.messages
        /\ sessions = last.pre.sessions
        /\ leads = last.pre.leads

\* A relay failed for a message of a session that has a lead and an earlier
\* message.
RelayFailureFrameWitness ==
    /\ last.op = "receive_message"
    /\ last.at = "relay_publish"
    /\ last.outcome = "raised"
    /\ last.pre.messages # {}
    /\ \E l \in leads : l.session_id = last.session_id

\* C15  Empty-text validation.  A receive_message call whose text is empty
\* or only whitespace ends in its first step with a client error (422), and
\* that step changes no table and nothing at the broker.
EmptyTextRejected ==
    [][(last'.op = "receive_message" /\ Strip(last'.text) = <<>>) =>
          /\ last'.outcome = "raised"
          /\ last'.status = 422
          /\ last'.at = "idle"
          /\ UNCHANGED <<dbVars, brokerVars>>]_vars

\* A whitespace-only message for an existing session was rejected while
\* the session already held a message.
EmptyTextRejectedWitness ==
    /\ last.op = "receive_message"
    /\ last.text = <<" ">>
    /\ last.status = 422
    /\ last.session_id \in SessionIds
    /\ messages # {}

\* C16  Unknown session on receive.  A receive_message call with a valid
\* text ends in its first step with 400 when it carries no session_id and
\* with 404 when its session_id matches no session row; that step changes
\* no table and nothing at the broker.
UnknownSessionRejected ==
    [][(/\ last'.op = "receive_message"
        /\ Strip(last'.text) # <<>>
        /\ last'.session_id \notin {s.session_id : s \in last'.pre.sessions}) =>
          /\ last'.outcome = "raised"
          /\ last'.status = IF last'.session_id = 0 THEN 400 ELSE 404
          /\ last'.at = "idle"
          /\ UNCHANGED <<dbVars, brokerVars>>]_vars

\* A message for a session_id that matches none of the existing sessions
\* was rejected as not found.
UnknownSessionRejectedWitness ==
    /\ last.op = "receive_message"
    /\ last.status = 404
    /\ last.session_id = UnknownSid
    /\ sessions # {}

\* C19  Supersession.  When a user_id has an expired session that is still
\* in the table and a replacement whose last_active is within the TTL, a
\* resolve for the user_id returns the replacement's session_id and the
\* number of sessions stays what it was.
Supersession ==
    last.op = "get_or_create_session" =>
        LET mine == {s \in last.pre.sessions : s.user_id = last.user_id}
            expired == {s \in mine : IsExpired(last.pre.now, s.last_active)}
            replacement == mine \ expired
        IN  (expired # {} /\ replacement # {}) =>
               /\ last.outcome = "returned"
               /\ \E s \in replacement : s.session_id = last.ret
               /\ Cardinality(sessions) = Cardinality(last.pre.sessions)

\* C20  Relay failure propagation.  A receive_message call that entered the
\* relay's flag update ends with its success response exactly when the
\* message was handed to the broker; otherwise the failure is raised to the
\* caller and the request ends with an error.
RelayFailurePropagation ==
    (last.op = "receive_message" /\ last.at \in {"relay_commit", "relay_publish"}) =>
        IF \E i \in DOMAIN publishLog : publishLog[i].id = last.target
        THEN last.outcome = "returned" /\ last.status = 200
        ELSE last.outcome = "raised" /\ last.status = 500

\* A relay failed at the broker after the flag was set, and the request
\* ended with an error.
RelayFailurePropagationWitness ==
    /\ last.op = "receive_message"
    /\ last.at = "relay_publish"
    /\ last.outcome = "raised"
    /\ \E m \in messages : m.id = last.target /\ m.is_sent_to_rabbitmq
    /\ \A i \in DOMAIN publishLog : publishLog[i].id # last.target

LogoutOutcomes ==
    [][(/\ Len(responses') = Len(responses) + 1
        /\ responses'[Len(responses')].op = "logout") =>
          LET r == responses'[Len(responses')]
          IN  /\ IF "access_token" \in DOMAIN request_session
                 THEN /\ r.status = 200
                      /\ r.message = "Logout successful"
                      /\ DOMAIN request_session' =
                            (DOMAIN request_session) \ {"access_token"}
                      /\ \A k \in DOMAIN request_session' :
                            request_session'[k] = request_session[k]
                 ELSE /\ r.status = 400
                      /\ r.message = "No active session found"
                      /\ request_session' = request_session
              /\ (/\ responses # <<>>
                  /\ responses[Len(responses)].op = "logout") =>
                     r.status = 400]_vars

\* A logout answered 200, the next one 400, and the session still holds its
\* other key.
LogoutOutcomesWitness ==
    /\ Len(responses) = 2
    /\ responses[1].op = "logout" /\ responses[1].status = 200
    /\ responses[2].op = "logout" /\ responses[2].status = 400
    /\ DOMAIN request_session = {"state"}

\* C13  Listing order.  Every listing of the messages of one session
\* (get_message_history, get_lead_and_bot_messages, get_messages_for_user)
\* returns them in increasing id order, which is the order of increasing
\* created_at: the order they were inserted in.
ListingOrder ==
    (/\ last.op \in {"get_message_history", "get_lead_and_bot_messages",
                     "get_messages_for_user"}
     /\ last.outcome = "returned") =>
        \A i, j \in DOMAIN last.rows :
            i < j =>
               /\ last.rows[i] < last.rows[j]
               /\ \A m, n \in messages :
                     (m.id = last.rows[i] /\ n.id = last.rows[j]) =>
                        m.created_at <= n.created_at

\* C14  Chat-list read shape.  Each chat list (get_chats_with_last_message,
\* get_leads_with_last_message) returns one entry per session, with the
\* names of the session's lead (null when it has none) and the text and time
\* of the session's message with the greatest id, and the entries of
\* sessions that have messages are in the order of their last message,
\* latest first.
ChatListShape ==
    (/\ last.op \in {"get_chats_with_last_message", "get_leads_with_last_message"}
     /\ last.outcome = "returned") =>
        /\ Len(last.chats) = Cardinality(sessions)
        /\ {last.chats[i].session_id : i \in DOMAIN last.chats} = SessionIds
        /\ \A i \in DOMAIN last.chats :
              LET chat == last.chats[i]
                  lead == {l \in leads : l.session_id = chat.session_id}
                  mine == {m \in messages : m.session_id = chat.session_id}
              IN  /\ IF lead = {}
                     THEN chat.first_name = NULL /\ chat.last_name = NULL
                     ELSE \E l \in lead : /\ chat.first_name = l.first_name
                                          /\ chat.last_name = l.last_name
                  /\ \A m \in mine :
                        (\A x \in mine : x.id <= m.id) =>
                           /\ chat.last_message_id = m.id
                           /\ chat.last_message = m.text
                           /\ chat.last_message_time = m.created_at
        /\ \A i, j \in DOMAIN last.chats :
              (/\ i < j
               /\ last.chats[i].last_message_id # 0
               /\ last.chats[j].last_message_id # 0) =>
                  last.chats[i].last_message_id > last.chats[j].last_message_id

\* C21  Flag-before-publish ordering.  A send_to_rabbitmq call reaches its
\* broker step only by the step that committed is_sent_to_rabbitmq = TRUE on
\* the message's row; whenever the broker step runs, the row of its message
\* (if a sweep has not removed it) carries the committed flag; and the
\* broker step writes nothing to the tables, so no transaction spans it.
FlagBeforePublish ==
    [][\A w \in Workers :
          /\ (proc[w].pc # "relay_publish" /\ proc'[w].pc = "relay_publish") =>
                /\ proc[w].pc = "relay_commit"
                /\ \E m \in messages' :
                      /\ m.id = proc'[w].target
                      /\ m.is_sent_to_rabbitmq
                      /\ \E old \in messages :
                            old.id = m.id /\ ~old.is_sent_to_rabbitmq
                /\ UNCHANGED brokerVars
          /\ (proc[w].pc = "relay_publish" /\ proc'[w] # proc[w]) =>
                /\ \A m \in messages :
                      m.id = proc[w].target => m.is_sent_to_rabbitmq
                /\ UNCHANGED dbVars]_vars

FlagBeforePublishWitness ==
    /\ last.op = "receive_message"
    /\ last.at = "relay_publish"
    /\ last.outcome = "returned"
    /\ Len(publishLog) = 2
    /\ \A i \in DOMAIN publishLog :
          \E m \in messages : m.id = publishLog[i].id /\ m.is_sent_to_rabbitmq

\* C22  Missing message on relay.  When send_to_rabbitmq finds no row for
\* the id it was given, the call returns normally (receive_message answers
\* 200), and that step changes no table and nothing at the broker.
RelayOfMissingMessage ==
    [][\A w \in Workers :
          (/\ proc[w].pc = "relay_select"
           /\ proc[w].target \notin MessageIds
           /\ proc'[w] # proc[w]) =>
              /\ last'.op = "receive_message"
              /\ last'.outcome = "returned"
              /\ last'.status = 200
              /\ UNCHANGED <<dbVars, brokerVars>>]_vars

RelayOfMissingMessageWitness ==
    /\ last.op = "receive_message"
    /\ last.at = "relay_select"
    /\ last.outcome = "returned"
    /\ last.target \notin MessageIds
    /\ publishLog = <<>>

\* C23  Expiry boundary.  In both resolve flows the session found for the
\* key is reused exactly when now - last_active is strictly below the flow's
\* TTL; at a difference equal to the TTL it is not reused.
ExpiryBoundary ==
    /\ last.op = "get_or_create_session" =>
          LET mine == {s \in last.pre.sessions : s.user_id = last.user_id}
          IN  \A s \in mine :
                 mine = {s} =>
                    ((last.outcome = "returned" /\ last.ret = s.session_id)
                        <=> last.pre.now - s.last_active < SESSION_LIFETIME)
    /\ last.op = "get_message_get_or_create_session" =>
          \A s \in last.pre.sessions :
             s.session_id = last.session_id =>
                ((last.outcome = "returned" /\ last.ret = s.session_id)
                    <=> last.pre.now - s.last_active < SESSION_TIMEOUT)

\* C24  Duplicate sessions under concurrency.  Nothing refuses the insert
\* of a session for a user_id that already has one: every call that stands
\* before create_new_session has its row accepted, whatever rows the table
\* holds, so two interleaved resolves that both saw no session both insert.
DuplicateSessionsNotPrevented ==
    \A w \in Workers :
        proc[w].pc = "create_new_session" =>
            /\ proc[w].user_id # NULL
            /\ SessionInsertAccepted(Session(nextSid, proc[w].user_id,
                                             proc[w].stamp))

DuplicateSessionsWitness ==
    /\ last.op = "get_or_create_session"
    /\ last.outcome = "returned"
    /\ last.pre.sessions = {}
    /\ now = 0
    /\ Cardinality({s \in sessions : s.user_id = last.user_id}) = 2

\* C25  Referential integrity.  In every reachable state, under any
\* interleaving of receive_message, create_message and
\* cleanup_expired_sessions, every message row and every lead row carries
\* the session_id of a session row.
ReferentialIntegrity ==
    /\ \A m \in messages : m.session_id \in SessionIds
    /\ \A l \in leads : l.session_id \in SessionIds

ReferentialIntegrityWitness ==
    /\ last.op \in {"receive_message", "create_message"}
    /\ last.outcome = "raised"
    /\ last.status = 500
    /\ last.at \notin {"relay_publish", "relay_commit"}
    /\ \E s \in last.pre.sessions : s.session_id = last.session_id
    /\ last.session_id \notin SessionIds

ListingErrorKinds ==
    last.op = "list_messages_for_session" =>
        /\ ~IsUUID(last.session_id) =>
              last.outcome = "raised" /\ last.status = 400
        /\ (/\ IsUUID(last.session_id)
            /\ \A s \in last.pre.sessions : s.session_id # last.session_id) =>
              last.outcome = "raised" /\ last.status = 404

\* C27  Consumer settlement.  Every delivery made to the callback is settled
\* exactly once at the broker: acknowledged when processing did not raise,
\* rejected with requeue = False when it raised; no delivery is both
\* acknowledged and rejected, none is settled twice, none is requeued.
ConsumerSettlement ==
    LET settlements == acked \o rejected
    IN  /\ \A i \in DOMAIN settlements :
              settlements[i].delivery_tag \in 1..delivered
        /\ \A tag \in 1..delivered :
              Cardinality({i \in DOMAIN settlements :
                              settlements[i].delivery_tag = tag}) = 1
        /\ \A i \in DOMAIN acked : ~processing_raises(acked[i].body)
        /\ \A i \in DOMAIN rejected :
              /\ processing_raises(rejected[i].body)
              /\ ~rejected[i].requeue

ConsumerSettlementWitness ==
    /\ consumerPc = "consuming"
    /\ delivered = 3
    /\ Len(acked) = 1
    /\ Len(rejected) = 2
    /\ Len(raisedOut) = 2
    /\ queues[CONSUMER_QUEUE_NAME] = <<>>

\* C28  Consumer failure isolation.  No run of the callback ends by raising:
\* a delivery whose processing failed is rejected and the callback returns;
\* the consumer keeps consuming, so deliveries after a failed one are
\* settled too.
ConsumerFailureIsolation ==
    /\ raisedOut = <<>>
    /\ rejected # <<>> => consumerPc \in {"consuming", "except"}
    /\ \A tag \in 1..delivered :
          tag < delivered => processed(tag)

\* C30  Login then logout.  When a client's login_post succeeded and the
\* client then posts logout (with no other logout in between), the logout
\* answers 200 'Logout successful'.
LoginThenLogout ==
    \A i, j \in DOMAIN responses :
        (/\ i < j
         /\ responses[i].op = "login_post" /\ responses[i].status = 200
         /\ responses[j].op = "logout"
         /\ \A k \in (i + 1)..(j - 1) : responses[k].op # "logout") =>
            /\ responses[j].status = 200
            /\ responses[j].message = "Logout successful"
====
